---- MODULE Spec2Model ----
(***************************************************************************)
(* Model of src/main.py: handler -> get_config -> dump_database ->         *)
(* dump_collection, writing a tar archive of a MongoDB database.           *)
(* Every call that can raise is one step with two outcomes (returns /      *)
(* raises); the values the driver hands back (collection names, documents, *)
(* indexes, options, listCollections reply) are inputs drawn from small    *)
(* sets at the step that reads them.                                       *)
(***************************************************************************)
EXTENDS Integers, Sequences, FiniteSets, TLC

\* ---------------------------------------------------------------- bounds
\* documents one cursor yields at most
MaxDocs == 2

\* ---------------------------------------------------------------- inputs
None == "None"

EnvVars == {"MONGO__URL", "MONGO__DB_NAME", "DUMP__DIR"}

\* what os.environ may hold for a variable: unset, set to "", set to a value
EnvValues(v) ==
    IF v = "MONGO__URL" THEN {None, "mongodb://h"}
    ELSE IF v = "MONGO__DB_NAME" THEN {None, "", "shop"}
    ELSE {None, "/tmp/dump"}

Environments == {e \in [EnvVars -> {None, "", "mongodb://h", "shop", "/tmp/dump"}] :
                    \A v \in EnvVars : e[v] \in EnvValues(v)}

CollNames == {"orders", "users"}

\* a document is the byte string of its elements
Documents == {<<1>>, <<2, 3>>}

\* an index descriptor as returned by list_indexes: its set of keys
IndexResults == {<<>>, <<{"v", "key", "name", "ns"}>>}

OptionResults == {{}, {"capped"}}

NoCursor == [hasCursor |-> FALSE, firstBatch |-> <<>>]

\* replies of db.command("listCollections", filter={"name": c})
CollectionInfos(c) ==
    { NoCursor,
      [hasCursor |-> TRUE, firstBatch |-> <<>>],
      [hasCursor |-> TRUE,
       firstBatch |-> <<[name |-> c, hasInfo |-> TRUE, uuid |-> "uuid-1"]>>],
      [hasCursor |-> TRUE,
       firstBatch |-> <<[name |-> c, hasInfo |-> FALSE, uuid |-> None]>>] }

\* ---------------------------------------------------------------- exceptions
NoExc == [step |-> "", cls |-> "", text |-> "", coll |-> ""]

Raise(step, cls, coll) == [step |-> step, cls |-> cls, text |-> step, coll |-> coll]

\* classes derived from Exception (all the classes the modelled calls raise)
ExceptionSubclasses ==
    {"RuntimeError", "InvalidURI", "OSError", "PyMongoError", "InvalidDocument",
     "TypeError"}

\* ---------------------------------------------------------------- logging
LogLine(level, fn, kind, coll) == [level |-> level, fn |-> fn, kind |-> kind, coll |-> coll]

\* ---------------------------------------------------------------- io.BytesIO
NewBytesIO == [data |-> <<>>, pos |-> 0]

Min(a, b) == IF a < b THEN a ELSE b

\* a write that replaces the buffer's content instead of extending it
BufWrite_overwrite(buf, b) == [data |-> b, pos |-> Len(b)]

BufWrite(buf, b) ==
    [data |-> SubSeq(buf.data, 1, buf.pos) \o b
              \o SubSeq(buf.data, buf.pos + Len(b) + 1, Len(buf.data)),
     pos |-> buf.pos + Len(b)]

BufTell(buf) == buf.pos

BufSeek0(buf) == [buf EXCEPT !.pos = 0]

BufRead(buf, n) == SubSeq(buf.data, buf.pos + 1, Min(buf.pos + n, Len(buf.data)))

\* ---------------------------------------------------------------- BSON
\* bson.BSON.encode: length prefix (counting itself and the terminator),
\* the elements, a terminating zero byte
encode(d) == <<Len(d) + 2>> \o d \o <<0>>


\* ---------------------------------------------------------------- metadata
KeyOrder == <<"v", "key", "name", "ns">>

\* index_info.pop("ns", None)
StripNs(index_info) == index_info \ {"ns"}

\* the loop over list_indexes(): dict(index_info), pop "ns", append
BuildIndexList(indexes) == [i \in 1..Len(indexes) |-> StripNs(indexes[i])]

\* the loop over collection_info["cursor"]["firstBatch"]
RECURSIVE FirstUuid(_, _)
FirstUuid(batch, collection_name) ==
    IF batch = <<>> THEN None
    ELSE IF Head(batch).name = collection_name /\ Head(batch).hasInfo
              /\ Head(batch).uuid # None
         THEN Head(batch).uuid
         ELSE FirstUuid(Tail(batch), collection_name)

ResolveUuid(collection_info, collection_name) ==
    IF collection_info.hasCursor
    THEN FirstUuid(collection_info.firstBatch, collection_name)
    ELSE None

RECURSIVE IndexTokens(_)
IndexTokens(index_list) ==
    IF index_list = <<>> THEN <<>>
    ELSE <<"{">> \o SelectSeq(KeyOrder, LAMBDA k : k \in Head(index_list)) \o <<"}">>
         \o IndexTokens(Tail(index_list))

UuidTokens(u) == IF u = None THEN <<"null">> ELSE <<"{", "$binary", u, "}">>

OptionTokens(options) == IF "capped" \in options THEN <<"capped">> ELSE <<>>

\* bson.json_util.dumps(metadata, CANONICAL_JSON_OPTIONS): the token text
dumps(metadata) ==
    <<"{", "indexes", "[">> \o IndexTokens(metadata.indexes)
    \o <<"]", "uuid">> \o UuidTokens(metadata.uuid)
    \o <<"collectionName", metadata.collectionName, "type", metadata.type,
         "options", "{">> \o OptionTokens(metadata.options) \o <<"}", "}">>

TokenByte(t) ==
    CASE t = "{" -> 123 [] t = "}" -> 125 [] t = "[" -> 91 [] t = "]" -> 93
      [] t = "indexes" -> 105 [] t = "uuid" -> 117 [] t = "collectionName" -> 99
      [] t = "type" -> 116 [] t = "collection" -> 67 [] t = "options" -> 111
      [] t = "null" -> 110 [] t = "$binary" -> 36 [] t = "uuid-1" -> 49
      [] t = "v" -> 118 [] t = "key" -> 107 [] t = "name" -> 78 [] t = "ns" -> 115
      [] t = "capped" -> 112 [] t = "orders" -> 79 [] t = "users" -> 85
      [] OTHER -> 63

\* metadata_json.encode("utf-8")
Utf8(text) == [i \in 1..Len(text) |-> TokenByte(text[i])]

\* ---------------------------------------------------------------- names
bson_file_name(db_name, collection_name) == <<"dump", db_name, collection_name, ".bson">>

\* the metadata entry given the name of the data entry
metadata_file_name_asBson(db_name, collection_name) ==
    <<"dump", db_name, collection_name, ".bson">>

metadata_file_name(db_name, collection_name) ==
    <<"dump", db_name, collection_name, ".metadata.json">>

\* ---------------------------------------------------------------- tarfile
\* tarfile.open(path, "w"): the compression the mode string selects
TarOpenMode == "w"

Compression(mode) ==
    CASE mode = "w" -> "none" [] mode = "w:" -> "none"
      [] mode = "w:gz" -> "gz" [] mode = "w|gz" -> "gz"
      [] OTHER -> "none"

\* TarFile.addfile(tarinfo, fileobj): the header is written, then tarinfo.size
\* bytes are copied from fileobj's current position, then the member is
\* recorded.  A short read or a failing write raises OSError and leaves what
\* was written so far in the file.
AddFileOutcomes(name, size, fileobj) ==
    LET got == BufRead(fileobj, size)
        ok == [written |-> TRUE, raised |-> FALSE,
               entry |-> [name |-> name, size |-> size, body |-> got, member |-> TRUE]]
        short == [written |-> TRUE, raised |-> TRUE,
                  entry |-> [name |-> name, size |-> size, body |-> got, member |-> FALSE]]
        headerOnly == [written |-> TRUE, raised |-> TRUE,
                       entry |-> [name |-> name, size |-> size, body |-> <<>>,
                                  member |-> FALSE]]
        nothing == [written |-> FALSE, raised |-> TRUE,
                    entry |-> [name |-> name, size |-> size, body |-> <<>>,
                               member |-> FALSE]]
    IN  (IF Len(got) = size THEN {ok} ELSE {short}) \cup {headerOnly, nothing}

\* leaving the with block by TarFile.close() whatever happened
TarExitOnError_close == "finalized"

\* TarFile.__exit__ with an exception in flight: the file object is closed,
\* no end-of-archive blocks are written
TarExitOnError == "abandoned"

\* ---------------------------------------------------------------- state
VARIABLES
    env,              \* os.environ restricted to the three settings
    pc,               \* position of the single thread of control
    config,           \* the dict get_config returned, or NoConfig
    exc,              \* the exception in flight / last raised, or NoExc
    result,           \* what handler returned, or NoResult
    log,              \* the lines printed so far
    clientCreated,    \* MongoClient(mongo_url) was constructed
    dirCreated,       \* os.makedirs(dump_dir) was done
    tarState,         \* "none" | "open" | "finalized" | "abandoned" | "close_failed"
    tarFile,          \* the archive file on disk: path and compression, or NoFile
    archive,          \* entries written into the archive file, in order
    collections,      \* result of db.list_collection_names()
    listCount,        \* number of list_collection_names() calls made
    idx,              \* position of the for loop over collections
    started,          \* collection names dump_collection was called with
    yielded,          \* per started collection: documents its cursor yielded
    returned,         \* functions that have returned normally
    bson_buffer,
    index_list,
    options,
    collection_uuid,
    metadata_buffer

vars == <<env, pc, config, exc, result, log, clientCreated, dirCreated, tarState,
          tarFile, archive, collections, listCount, idx, started, yielded, returned,
          bson_buffer, index_list, options, collection_uuid, metadata_buffer>>

dbVars == <<clientCreated, dirCreated, tarState, tarFile, archive, collections,
            listCount, idx, started, yielded>>

collVars == <<bson_buffer, index_list, options, collection_uuid, metadata_buffer>>

NoConfig == [mongo__url |-> None, mongo__db_name |-> None, dump__dir |-> None]
NoResult == [statusCode |-> 0, body |-> [msg |-> ""]]
NoFile == [dir |-> None, db |-> None, suffix |-> None, compression |-> None]

Init ==
    /\ env \in Environments
    /\ pc = "get_config"
    /\ config = NoConfig
    /\ exc = NoExc
    /\ result = NoResult
    /\ log = <<>>
    /\ clientCreated = FALSE
    /\ dirCreated = FALSE
    /\ tarState = "none"
    /\ tarFile = NoFile
    /\ archive = <<>>
    /\ collections = <<>>
    /\ listCount = 0
    /\ idx = 0
    /\ started = <<>>
    /\ yielded = <<>>
    /\ returned = {}
    /\ bson_buffer = NewBytesIO
    /\ index_list = <<>>
    /\ options = {}
    /\ collection_uuid = None
    /\ metadata_buffer = NewBytesIO

\* ---------------------------------------------------------------- get_config
\* line 18: all(v is not None for v in (...))
AllSet(e) == \A v \in EnvVars : e[v] # None

\* a lookup that falls back to a default directory
EnvGet_default(e, v) == IF v = "DUMP__DIR" /\ e[v] = None THEN "/tmp" ELSE e[v]

\* lines 14-16: os.environ.get(name, None)
EnvGet(e, v) == e[v]

get_config ==
    /\ pc = "get_config"
    /\ IF ~AllSet([v \in EnvVars |-> EnvGet(env, v)])
       THEN /\ log' = Append(log, LogLine("FATAL", "get_config", "error", ""))
            /\ exc' = Raise("get_config", "RuntimeError", "")
            /\ pc' = "handler_except"
            /\ UNCHANGED <<config, returned>>
       ELSE /\ config' = [mongo__url |-> EnvGet(env, "MONGO__URL"),
                          mongo__db_name |-> EnvGet(env, "MONGO__DB_NAME"),
                          dump__dir |-> EnvGet(env, "DUMP__DIR")]
            /\ log' = Append(log, LogLine("INFO", "get_config", "config", ""))
            /\ returned' = returned \cup {"get_config"}
            /\ pc' = "connect"
            /\ UNCHANGED exc
    /\ UNCHANGED <<env, result, dbVars, collVars>>


\* ---------------------------------------------------------------- dump_database
\* lines 182-196: MongoClient(mongo_url), client[db_name], the start log line.
\* These lines are outside the try block of dump_database: an exception
\* goes straight to the caller.
dump_database_connect ==
    /\ pc = "connect"
    /\ \/ /\ clientCreated' = TRUE
          /\ log' = Append(log, LogLine("INFO", "dump_database", "start", ""))
          /\ pc' = "makedirs"
          /\ UNCHANGED exc
       \/ /\ exc' = Raise("MongoClient", "InvalidURI", "")
          /\ pc' = "handler_except"
          /\ UNCHANGED <<clientCreated, log>>
    /\ UNCHANGED <<returned, env, config, result, dirCreated, tarState, tarFile, archive,
                   collections, listCount, idx, started, yielded, collVars>>

\* lines 200-206: tarfile_path, os.makedirs(dump_dir, exist_ok=True)
dump_database_makedirs ==
    /\ pc = "makedirs"
    /\ \/ /\ dirCreated' = TRUE
          /\ pc' = "tarfile_open"
          /\ UNCHANGED exc
       \/ /\ exc' = Raise("makedirs", "OSError", "")
          /\ pc' = "db_except"
          /\ UNCHANGED dirCreated
    /\ UNCHANGED <<returned, env, config, result, log, clientCreated, tarState, tarFile, archive,
                   collections, listCount, idx, started, yielded, collVars>>

\* line 209: tarfile.open(tarfile_path, "w")
dump_database_tarfile_open ==
    /\ pc = "tarfile_open"
    /\ \/ /\ tarState' = "open"
          /\ tarFile' = [dir |-> config.dump__dir, db |-> config.mongo__db_name,
                         suffix |-> ".tar.gz",
                         compression |-> Compression(TarOpenMode)]
          /\ pc' = "list"
          /\ UNCHANGED exc
       \/ /\ exc' = Raise("tarfile.open", "OSError", "")
          /\ pc' = "db_except"
          /\ UNCHANGED <<tarState, tarFile>>
    /\ UNCHANGED <<returned, env, config, result, log, clientCreated, dirCreated, archive,
                   collections, listCount, idx, started, yielded, collVars>>

\* the listings db.list_collection_names() may return: distinct names
Listings ==
    {l \in UNION {[1..n -> CollNames] : n \in 0..Cardinality(CollNames)} :
        \A i, j \in 1..Len(l) : i # j => l[i] # l[j]}

\* line 211: collections = db.list_collection_names(), inside the with block
dump_database_list ==
    /\ pc = "list"
    /\ listCount' = listCount + 1
    /\ \/ /\ \E l \in Listings : collections' = l
          /\ idx' = 1
          /\ pc' = "loop"
          /\ UNCHANGED <<exc, tarState>>
       \/ /\ exc' = Raise("list_collection_names", "PyMongoError", "")
          /\ tarState' = TarExitOnError
          /\ pc' = "db_except"
          /\ UNCHANGED <<collections, idx>>
    /\ UNCHANGED <<returned, env, config, result, log, clientCreated, dirCreated, tarFile,
                   archive, started, yielded, collVars>>

\* a loop that walks the listing backwards
NextCollection_reversed(colls, i) == colls[Len(colls) - i + 1]

\* line 214: the collection the for loop hands to dump_collection
NextCollection(colls, i) == colls[i]

\* lines 214-215 and 59-72: the for loop takes the next name and calls
\* dump_collection, which prints its start line and enters its try block
dump_collection_start ==
    /\ pc = "loop"
    /\ idx <= Len(collections)
    /\ started' = Append(started, NextCollection(collections, idx))
    /\ yielded' = Append(yielded, <<>>)
    /\ log' = Append(log, LogLine("INFO", "dump_collection", "start",
                                  NextCollection(collections, idx)))
    /\ bson_buffer' = NewBytesIO
    /\ pc' = "cursor"
    /\ UNCHANGED <<returned, env, config, exc, result, clientCreated, dirCreated, tarState,
                   tarFile, archive, collections, listCount, idx, index_list,
                   options, collection_uuid, metadata_buffer>>

\* TarFile.close(): closed is set, the end-of-archive blocks are written
TarCloseOk == "finalized"

\* lines 209/217-225: the for loop is exhausted, the with block exits
\* normally (TarFile.close()), the overall success line is printed
dump_database_close ==
    /\ pc = "loop"
    /\ idx > Len(collections)
    /\ \/ /\ tarState' = TarCloseOk
          /\ log' = Append(log, LogLine("INFO", "dump_database", "success", ""))
          /\ returned' = returned \cup {"dump_database"}
          /\ pc' = "handler_return"
          /\ UNCHANGED exc
       \/ /\ tarState' = "close_failed"
          /\ exc' = Raise("tarfile.close", "OSError", "")
          /\ pc' = "db_except"
          /\ UNCHANGED <<log, returned>>
    /\ UNCHANGED <<env, config, result, clientCreated, dirCreated, tarFile, archive,
                   collections, listCount, idx, started, yielded, collVars>>

\* lines 226-236: except Exception in dump_database: ERROR line, raise
dump_database_except ==
    /\ pc = "db_except"
    /\ log' = Append(log, LogLine("ERROR", "dump_database", "error", ""))
    /\ pc' = "handler_except"
    /\ UNCHANGED <<returned, env, config, exc, result, dbVars, collVars>>


\* ---------------------------------------------------------------- dump_collection
collection_name == started[Len(started)]

\* lines 77-82: one iteration of "for document in cursor": the cursor yields
\* a document, which is encoded and written to bson_buffer; or the cursor is
\* exhausted; or the cursor or the encoder raises
dump_collection_cursor ==
    /\ pc = "cursor"
    /\ \/ /\ Len(yielded[Len(yielded)]) < MaxDocs
          /\ \E document \in Documents :
                /\ yielded' = [yielded EXCEPT ![Len(yielded)] = Append(@, document)]
                /\ bson_buffer' = BufWrite(bson_buffer, encode(document))
          /\ UNCHANGED <<pc, exc>>
       \/ /\ pc' = "add_bson"
          /\ UNCHANGED <<yielded, bson_buffer, exc>>
       \/ /\ \E e \in {Raise("cursor", "PyMongoError", collection_name),
                       Raise("encode", "InvalidDocument", collection_name)} : exc' = e
          /\ pc' = "coll_except"
          /\ UNCHANGED <<yielded, bson_buffer>>
    /\ UNCHANGED <<returned, env, config, result, log, clientCreated, dirCreated,
                   tarState, tarFile, archive, collections, listCount, idx, started,
                   index_list, options, collection_uuid, metadata_buffer>>

\* lines 85-90: TarInfo(name=bson_file_name), size = tell(), seek(0), addfile
dump_collection_add_bson ==
    /\ pc = "add_bson"
    /\ \E o \in AddFileOutcomes(bson_file_name(config.mongo__db_name, collection_name),
                                BufTell(bson_buffer), BufSeek0(bson_buffer)) :
          /\ archive' = IF o.written THEN Append(archive, o.entry) ELSE archive
          /\ IF o.raised
             THEN /\ exc' = Raise("addfile", "OSError", collection_name)
                  /\ pc' = "coll_except"
             ELSE /\ pc' = "list_indexes"
                  /\ UNCHANGED exc
    /\ bson_buffer' = BufSeek0(bson_buffer)
    /\ UNCHANGED <<returned, env, config, result, log, clientCreated, dirCreated,
                   tarState, tarFile, collections, listCount, idx, started, yielded,
                   index_list, options, collection_uuid, metadata_buffer>>

\* lines 93-104: collection.list_indexes() and the loop building index_list
dump_collection_list_indexes ==
    /\ pc = "list_indexes"
    /\ \/ /\ \E indexes \in IndexResults : index_list' = BuildIndexList(indexes)
          /\ pc' = "options"
          /\ UNCHANGED exc
       \/ /\ exc' = Raise("list_indexes", "PyMongoError", collection_name)
          /\ pc' = "coll_except"
          /\ UNCHANGED index_list
    /\ UNCHANGED <<returned, env, config, result, log, dbVars, bson_buffer, options,
                   collection_uuid, metadata_buffer>>

\* line 107: options = collection.options()
dump_collection_options ==
    /\ pc = "options"
    /\ \/ /\ \E o \in OptionResults : options' = o
          /\ pc' = "listCollections"
          /\ UNCHANGED exc
       \/ /\ exc' = Raise("options", "PyMongoError", collection_name)
          /\ pc' = "coll_except"
          /\ UNCHANGED options
    /\ UNCHANGED <<returned, env, config, result, log, dbVars, bson_buffer, index_list,
                   collection_uuid, metadata_buffer>>

\* lines 110-122: db.command("listCollections", ...) and the uuid lookup
dump_collection_listCollections ==
    /\ pc = "listCollections"
    /\ \/ /\ \E collection_info \in CollectionInfos(collection_name) :
                collection_uuid' = ResolveUuid(collection_info, collection_name)
          /\ pc' = "metadata"
          /\ UNCHANGED exc
       \/ /\ exc' = Raise("listCollections", "PyMongoError", collection_name)
          /\ pc' = "coll_except"
          /\ UNCHANGED collection_uuid
    /\ UNCHANGED <<returned, env, config, result, log, dbVars, bson_buffer, index_list,
                   options, metadata_buffer>>

\* lines 125-131
metadata ==
    [indexes |-> index_list, uuid |-> collection_uuid,
     collectionName |-> collection_name, type |-> "collection", options |-> options]

\* lines 134-140: dumps(metadata), write the utf-8 bytes to metadata_buffer
dump_collection_metadata ==
    /\ pc = "metadata"
    /\ \/ /\ metadata_buffer' = BufWrite(NewBytesIO, Utf8(dumps(metadata)))
          /\ pc' = "add_metadata"
          /\ UNCHANGED exc
       \/ /\ exc' = Raise("dumps", "TypeError", collection_name)
          /\ pc' = "coll_except"
          /\ UNCHANGED metadata_buffer
    /\ UNCHANGED <<returned, env, config, result, log, dbVars, bson_buffer, index_list,
                   options, collection_uuid>>

\* lines 139-161: metadata_size = tell(), seek(0), TarInfo, addfile, close the
\* buffers, print the success line, return to the for loop
dump_collection_add_metadata ==
    /\ pc = "add_metadata"
    /\ \E o \in AddFileOutcomes(metadata_file_name(config.mongo__db_name, collection_name),
                                BufTell(metadata_buffer), BufSeek0(metadata_buffer)) :
          /\ archive' = IF o.written THEN Append(archive, o.entry) ELSE archive
          /\ IF o.raised
             THEN /\ exc' = Raise("addfile", "OSError", collection_name)
                  /\ pc' = "coll_except"
                  /\ metadata_buffer' = BufSeek0(metadata_buffer)
                  /\ UNCHANGED <<log, idx, returned, bson_buffer, index_list, options,
                                 collection_uuid>>
             ELSE /\ log' = Append(log, LogLine("INFO", "dump_collection", "success",
                                                collection_name))
                  /\ returned' = returned \cup {collection_name}
                  /\ idx' = idx + 1
                  /\ pc' = "loop"
                  /\ bson_buffer' = NewBytesIO
                  /\ metadata_buffer' = NewBytesIO
                  /\ index_list' = <<>>
                  /\ options' = {}
                  /\ collection_uuid' = None
                  /\ UNCHANGED exc
    /\ UNCHANGED <<env, config, result, clientCreated, dirCreated, tarState, tarFile,
                   collections, listCount, started, yielded>>

\* an except clause that logs and goes on with the next collection
CollExceptOutcome_swallow(i) == [pc |-> "loop", idx |-> i + 1, tarState |-> "open"]

\* where control goes when dump_collection re-raises (line 172): out of the
\* for loop and out of the with block (TarFile.__exit__ with an exception),
\* to the except clause of dump_database
CollExceptOutcome(i) == [pc |-> "db_except", idx |-> i, tarState |-> TarExitOnError]

\* lines 162-172: except Exception in dump_collection: ERROR line, raise
dump_collection_except ==
    /\ pc = "coll_except"
    /\ log' = Append(log, LogLine("ERROR", "dump_collection", "error", collection_name))
    /\ pc' = CollExceptOutcome(idx).pc
    /\ idx' = CollExceptOutcome(idx).idx
    /\ tarState' = CollExceptOutcome(idx).tarState
    /\ UNCHANGED <<returned, env, config, exc, result, clientCreated, dirCreated,
                   tarFile, archive, collections, listCount, started, yielded, collVars>>

\* ---------------------------------------------------------------- handler
\* an except clause that names one class only
HandlerCatches_onlyRuntimeError(cls) == cls = "RuntimeError"

\* line 246: "except Exception" catches instances of Exception subclasses
HandlerCatches(cls) == cls \in ExceptionSubclasses

\* lines 242-245
OkResult == [statusCode |-> 200, body |-> [msg |-> "OK"]]

\* lines 256-259
ErrorResult(e) == [statusCode |-> 500, body |-> [msg |-> "Internal Server Error"]]

handler_return ==
    /\ pc = "handler_return"
    /\ result' = OkResult
    /\ returned' = returned \cup {"handler"}
    /\ pc' = "done"
    /\ UNCHANGED <<env, config, exc, log, dbVars, collVars>>

\* lines 246-259: FATAL line, the 500 result
handler_except ==
    /\ pc = "handler_except"
    /\ IF HandlerCatches(exc.cls)
       THEN /\ log' = Append(log, LogLine("FATAL", "handler", "error", ""))
            /\ result' = ErrorResult(exc)
            /\ returned' = returned \cup {"handler"}
            /\ pc' = "done"
       ELSE /\ pc' = "propagated"
            /\ UNCHANGED <<log, result, returned>>
    /\ UNCHANGED <<env, config, exc, dbVars, collVars>>

Next ==
    \/ get_config
    \/ dump_database_connect
    \/ dump_database_makedirs
    \/ dump_database_tarfile_open
    \/ dump_database_list
    \/ dump_collection_start
    \/ dump_collection_cursor
    \/ dump_collection_add_bson
    \/ dump_collection_list_indexes
    \/ dump_collection_options
    \/ dump_collection_listCollections
    \/ dump_collection_metadata
    \/ dump_collection_add_metadata
    \/ dump_collection_except
    \/ dump_database_close
    \/ dump_database_except
    \/ handler_return
    \/ handler_except

Spec == Init /\ [][Next]_vars


\* ================================================================ properties
db_name == config.mongo__db_name

HasEntry(name) == \E k \in 1..Len(archive) : archive[k].name = name

EntryCount(name) == Cardinality({k \in 1..Len(archive) : archive[k].name = name})

LogHas(level, fn, kind, coll) ==
    \E k \in 1..Len(log) : log[k] = LogLine(level, fn, kind, coll)

\* the steps of dump_collection that can raise
DumpSteps == {"cursor", "encode", "addfile", "list_indexes", "options",
              "listCollections", "dumps"}

\* every step of dump_database (connection setup included) that can raise
RunSteps == DumpSteps \cup {"MongoClient", "makedirs", "tarfile.open",
                            "list_collection_names", "tarfile.close"}

\* the concatenation encode(d1) ++ ... ++ encode(dN)
RECURSIVE ConcatEncode(_)
ConcatEncode(docs) ==
    IF docs = <<>> THEN <<>> ELSE encode(Head(docs)) \o ConcatEncode(Tail(docs))

\* reading a .bson body back: split at the length prefixes, drop the
\* prefix and the terminator of each document
RECURSIVE DecodeAll(_)
DecodeAll(bytes) ==
    IF bytes = <<>> THEN <<>>
    ELSE <<SubSeq(bytes, 2, bytes[1] - 1)>>
         \o DecodeAll(SubSeq(bytes, bytes[1] + 1, Len(bytes)))

\* C1: in every reachable state, for every collection name c the archive
\* holds dump/<db>/<c>.bson if and only if it holds
\* dump/<db>/<c>.metadata.json.
C1_BothOrNeither ==
    \A c \in CollNames :
        HasEntry(bson_file_name(db_name, c)) <=> HasEntry(metadata_file_name(db_name, c))

\* C2: handler never lets an exception escape; once it has returned, the
\* result is the 200/OK result exactly when get_config and dump_database both
\* returned normally (no exception was raised), and otherwise the 500 result
\* whose body carries only the fixed message, never the exception text.
C2_HandlerResult ==
    /\ pc # "propagated"
    /\ pc # "done" => result = NoResult
    /\ pc = "done" =>
        /\ result \in {OkResult,
                       [statusCode |-> 500, body |-> [msg |-> "Internal Server Error"]]}
        /\ (result = OkResult) <=> ({"get_config", "dump_database"} \subseteq returned)
        /\ (result = OkResult) <=> (exc = NoExc)
        /\ result.statusCode = 500 => result.body.msg # exc.text

C2_Witness ==
    /\ pc = "done"
    /\ result.statusCode = 500
    /\ exc.step = "addfile"
    /\ "get_config" \in returned

\* C3: the archive is finalized only after every listed collection was dumped
\* successfully; when listing or any collection dump raises, the archive is
\* never finalized and the file with what was written so far stays on disk.
C3_FinalizedOnlyAfterAll ==
    /\ tarState = "finalized" =>
        /\ exc = NoExc
        /\ listCount = 1
        /\ idx = Len(collections) + 1
        /\ \A i \in 1..Len(collections) :
              /\ collections[i] \in returned
              /\ LogHas("INFO", "dump_collection", "success", collections[i])
    /\ exc.step \in DumpSteps \cup {"list_collection_names"} =>
        /\ tarState \in {"open", "abandoned"}
        /\ tarFile # NoFile
        /\ pc \in {"db_except", "handler_except", "done"} => tarState = "abandoned"

C3_Witness ==
    /\ pc = "done"
    /\ exc.step = "list_indexes"
    /\ tarState = "abandoned"
    /\ Len(archive) = 3
    /\ tarFile # NoFile

\* C4: when a step of dump_collection raises for collection C, dump_collection
\* has been started for the collections up to C only, the archive holds no
\* entry of any collection after C, and the two entries of every collection
\* before C are still there as written.
C4_AbortOnFirstFailure ==
    exc.step \in DumpSteps =>
        /\ idx \in 1..Len(collections)
        /\ exc.coll = collections[idx]
        /\ started = SubSeq(collections, 1, idx)
        /\ \A j \in (idx + 1)..Len(collections) :
              /\ ~HasEntry(bson_file_name(db_name, collections[j]))
              /\ ~HasEntry(metadata_file_name(db_name, collections[j]))
        /\ \A j \in 1..(idx - 1) :
              /\ archive[2 * j - 1].name = bson_file_name(db_name, collections[j])
              /\ archive[2 * j - 1].member
              /\ archive[2 * j - 1].body = ConcatEncode(yielded[j])
              /\ archive[2 * j].name = metadata_file_name(db_name, collections[j])
              /\ archive[2 * j].member

C4_Witness ==
    /\ pc = "done"
    /\ exc.step = "list_indexes"
    /\ Len(collections) = 2
    /\ idx = 1
    /\ Len(archive) = 1

\* C5: after a successful run over N listed collections the archive holds
\* exactly 2 x N entries, one .bson and one .metadata.json entry per listed
\* collection and nothing else, each with a declared size equal to the
\* length of its body.
C5_TwoEntriesPerCollection ==
    (pc = "done" /\ result = OkResult) =>
        /\ Len(archive) = 2 * Len(collections)
        /\ \A i \in 1..Len(collections) :
              /\ EntryCount(bson_file_name(db_name, collections[i])) = 1
              /\ EntryCount(metadata_file_name(db_name, collections[i])) = 1
        /\ \A k \in 1..Len(archive) :
              /\ \E i \in 1..Len(collections) :
                    archive[k].name \in {bson_file_name(db_name, collections[i]),
                                         metadata_file_name(db_name, collections[i])}
              /\ archive[k].member
              /\ archive[k].size = Len(archive[k].body)

C5_Witness ==
    /\ pc = "done"
    /\ result = OkResult
    /\ Len(collections) = 2
    /\ Len(archive) = 4
    /\ archive[1].size > 0

\* C6: once get_config has run: if all three settings are set, the returned
\* configuration is exactly the three values; if any is unset, get_config
\* printed one FATAL line and raised, nothing was substituted, and no
\* client, directory or archive file is ever created.
C6_ConfigAllOrNothing ==
    pc # "get_config" =>
        IF \A v \in EnvVars : env[v] # None
        THEN /\ config = [mongo__url |-> env["MONGO__URL"],
                          mongo__db_name |-> env["MONGO__DB_NAME"],
                          dump__dir |-> env["DUMP__DIR"]]
             /\ "get_config" \in returned
        ELSE /\ config = NoConfig
             /\ "get_config" \notin returned
             /\ exc.step = "get_config"
             /\ Cardinality({k \in 1..Len(log) :
                    log[k].level = "FATAL" /\ log[k].fn = "get_config"}) = 1
             /\ ~clientCreated
             /\ ~dirCreated
             /\ tarFile = NoFile
             /\ tarState = "none"
             /\ listCount = 0
             /\ archive = <<>>

C6_Witness ==
    /\ pc = "done"
    /\ env["DUMP__DIR"] = None
    /\ env["MONGO__URL"] # None
    /\ env["MONGO__DB_NAME"] # None
    /\ result.statusCode = 500

\* C7: the body of a collection's .bson entry is the concatenation of the
\* encodings of the documents its cursor yielded, in that order: it decodes
\* to exactly those documents and to nothing of another collection.
C7_BsonBodyIsCursorOrder ==
    \A k \in 1..Len(archive) :
        (archive[k].member /\ archive[k].name[4] = ".bson") =>
            \E i \in 1..Len(started) :
                /\ started[i] = archive[k].name[3]
                /\ archive[k].body = ConcatEncode(yielded[i])
                /\ DecodeAll(archive[k].body) = yielded[i]

C7_Witness ==
    /\ Len(archive) >= 3
    /\ archive[3].member
    /\ archive[3].name[4] = ".bson"
    /\ Len(yielded[2]) = 2
    /\ yielded[2][1] # yielded[2][2]
    /\ yielded[1] # <<>>

\* C8: the archive file named <db>_backup_<timestamp>.tar.gz is opened in a
\* gzip-compressing write mode.
C8_ArchiveIsGzip ==
    tarFile # NoFile => (tarFile.suffix = ".tar.gz" /\ tarFile.compression = "gz")

\* C9: the collection names are listed once, after the directory was ensured
\* and the archive opened; collections are dumped once each in listing order,
\* one at a time: when the dump of a collection starts, both entries of every
\* earlier collection are in the archive, so entries appear in listing order,
\* each .bson directly followed by its .metadata.json.
C9_SequentialInListingOrder ==
    /\ listCount <= 1
    /\ listCount = 1 => (dirCreated /\ tarState # "none" /\ tarFile # NoFile)
    /\ listCount = 0 => (collections = <<>> /\ started = <<>>)
    /\ Len(started) <= Len(collections)
    /\ started = SubSeq(collections, 1, Len(started))
    /\ Len(archive) <= 2 * Len(started)
    /\ \A j \in 1..(Len(started) - 1) :
          /\ Len(archive) >= 2 * j
          /\ archive[2 * j - 1].member
          /\ archive[2 * j].member
    /\ \A k \in 1..Len(archive) :
          archive[k].name =
              IF k % 2 = 1
              THEN bson_file_name(db_name, collections[(k + 1) \div 2])
              ELSE metadata_file_name(db_name, collections[(k + 1) \div 2])
    /\ (pc = "done" /\ result = OkResult) => (listCount = 1 /\ started = collections)

C9_Witness ==
    /\ pc = "done"
    /\ result = OkResult
    /\ Len(collections) = 2
    /\ Len(archive) = 4

\* C10: every error raised during a run (connection setup, directory or
\* archive creation, listing, any step of a collection dump) is logged by an
\* ERROR line of dump_database (and of dump_collection, naming the
\* collection, where one is being dumped) and reaches handler, which logs
\* FATAL; and no success line follows for the failing collection or the run.
C10_EveryErrorLogged ==
    (exc.step \in RunSteps /\ pc \in {"done", "propagated"}) =>
        /\ LogHas("ERROR", "dump_database", "error", "")
        /\ LogHas("FATAL", "handler", "error", "")
        /\ exc.coll # "" => LogHas("ERROR", "dump_collection", "error", exc.coll)
        /\ exc.coll # "" => ~LogHas("INFO", "dump_collection", "success", exc.coll)
        /\ ~LogHas("INFO", "dump_database", "success", "")

====
